---- MODULE Spec2Model ----
(***************************************************************************)
(* StreamKit gain plugin: the node plugin contract as realised by the two  *)
(* C bindings of the repository.                                           *)
(*                                                                         *)
(*   Variant A  examples/plugins/gain-native-c/gain_plugin.c  (call table) *)
(*   Variant B  examples/plugins/gain-wasm-c/gain_plugin.c    (resource)   *)
(*                                                                         *)
(* One host drives one instance of the module it loaded (binding), one     *)
(* call at a time.  Every handler is one action; what a handler does to    *)
(* memory, and the log and send-output calls it makes, are recorded in     *)
(* order in last.trace until the host takes the call's result.             *)
(*                                                                         *)
(* Numbers.  A C float is a record [nan, m]: either NaN, or the finite     *)
(* value m/1000 (so 1.0 is F(1000), -60 dB is F(-60000)).  Products are    *)
(* rounded to that precision.  A parameter payload is a sequence of        *)
(* lexical tokens, NUL-terminated at its length, or the null pointer.      *)
(***************************************************************************)
EXTENDS Integers, Sequences, FiniteSets, TLC

(***************************************************************************)
(* Bounds of the model.                                                    *)
(***************************************************************************)
\* longest sample array of an input frame
MaxSamples == 2
\* how many times the host calls cleanup() on one live resource handle
MaxCleanups == 2
MaxProcessCalls == 2

(***************************************************************************)
(* float                                                                   *)
(***************************************************************************)
F(m) == [nan |-> FALSE, m |-> m]
NaN == [nan |-> TRUE, m |-> 0]

\* a < b on floats: every comparison with NaN is false
FLt(a, b) == ~a.nan /\ ~b.nan /\ a.m < b.m

\* a * b on floats, rounded to the model's precision
FMul(a, b) == IF a.nan \/ b.nan THEN NaN ELSE F((a.m * b.m) \div 1000)

DEFAULT_GAIN == F(1000)
MIN_GAIN == F(0)
MAX_GAIN == F(4000)
MIN_GAIN_DB == F(-60000)
MAX_GAIN_DB == F(20000)

(***************************************************************************)
(* Parameter payloads                                                      *)
(***************************************************************************)
Tok(k) == [k |-> k, v |-> F(0)]
Num(v) == [k |-> "num", v |-> v]

\* const char* / plugin_string_t*: the null pointer, or a token string
NullParams == [null |-> TRUE, toks |-> <<>>]
Str(toks) == [null |-> FALSE, toks |-> toks]

\* strstr / strchr: the first index >= from whose token is of kind k, or 0
RECURSIVE Find(_, _, _)
Find(toks, k, from) ==
    IF from > Len(toks) THEN 0
    ELSE IF toks[from].k = k THEN from
    ELSE Find(toks, k, from + 1)

\* the first index >= from whose token is not of a kind in ks (Len+1: the NUL)
RECURSIVE Skip(_, _, _)
Skip(toks, ks, from) ==
    IF from > Len(toks) THEN from
    ELSE IF toks[from].k \in ks THEN Skip(toks, ks, from + 1)
    ELSE from

\* strtof(p, &end) / sscanf(p, "%f", &v): leading white space is skipped, then
\* a number is converted if one starts there ("nan" is one)
ScanFloat(toks, from) ==
    LET p == Skip(toks, {"space"}, from)
    IN  IF p <= Len(toks) /\ toks[p].k = "num"
        THEN [found |-> TRUE, value |-> toks[p].v]
        ELSE [found |-> FALSE, value |-> F(0)]

\* parse_gain without its end == p test: strtof's 0 for "no number" is taken
\* as the value
parse_gain_no_end_check(json) ==
    IF json.null \/ json.toks = <<>> THEN DEFAULT_GAIN
    ELSE LET key == Find(json.toks, "key_gain", 1)
         IN  IF key = 0 THEN DEFAULT_GAIN
             ELSE LET p == Skip(json.toks, {"space", "colon"}, key + 1)
                      r == ScanFloat(json.toks, p)
                      v1 == IF FLt(r.value, MIN_GAIN) THEN MIN_GAIN ELSE r.value
                      v2 == IF FLt(MAX_GAIN, v1) THEN MAX_GAIN ELSE v1
                  IN  v2

\* Variant A
parse_gain(json) ==
    IF json.null \/ json.toks = <<>> THEN DEFAULT_GAIN
    ELSE LET key == Find(json.toks, "key_gain", 1)
         IN  IF key = 0 THEN DEFAULT_GAIN
             ELSE LET p == Skip(json.toks, {"space", "colon"}, key + 1)
                      r == ScanFloat(json.toks, p)
                  IN  IF ~r.found THEN DEFAULT_GAIN
                      ELSE LET v1 == IF FLt(r.value, MIN_GAIN) THEN MIN_GAIN ELSE r.value
                               v2 == IF FLt(MAX_GAIN, v1) THEN MAX_GAIN ELSE v1
                           IN  v2

\* Variant B
clamp_f32(value, min, max) ==
    IF FLt(value, min) THEN min
    ELSE IF FLt(max, value) THEN max
    ELSE value

\* powf(10.0f, db / 20.0f), rounded to the model's precision
db_to_linear(db) ==
    IF db.nan THEN NaN
    ELSE CASE db.m = -60000 -> F(1)
           [] db.m = -20000 -> F(100)
           [] db.m = 0      -> F(1000)
           [] db.m = 6000   -> F(1995)
           [] db.m = 20000  -> F(10000)

\* parse_gain_db falling back to the schema minimum instead of 0 dB
parse_gain_db_min_fallback(json_str) ==
    IF json_str.null \/ Len(json_str.toks) = 0 THEN MIN_GAIN_DB
    ELSE LET pos == Find(json_str.toks, "key_gain_db", 1)
         IN  IF pos = 0 THEN MIN_GAIN_DB
             ELSE LET colon == Find(json_str.toks, "colon", pos)
                  IN  IF colon = 0 THEN MIN_GAIN_DB
                      ELSE LET r == ScanFloat(json_str.toks, colon + 1)
                           IN  IF r.found THEN r.value ELSE MIN_GAIN_DB

parse_gain_db(json_str) ==
    IF json_str.null \/ Len(json_str.toks) = 0 THEN F(0)
    ELSE LET pos == Find(json_str.toks, "key_gain_db", 1)
         IN  IF pos = 0 THEN F(0)
             ELSE LET colon == Find(json_str.toks, "colon", pos)
                  IN  IF colon = 0 THEN F(0)
                      ELSE LET r == ScanFloat(json_str.toks, colon + 1)
                           IN  IF r.found THEN r.value ELSE F(0)

(***************************************************************************)
(* The inputs the host draws from                                          *)
(***************************************************************************)
Bindings == {"A", "B"}

STREAMKIT_NATIVE_PLUGIN_API_VERSION == 2

\* a version that is not the header's
g_plugin_api_stale_version == STREAMKIT_NATIVE_PLUGIN_API_VERSION - 1

\* g_plugin_api.version
g_plugin_api_version == STREAMKIT_NATIVE_PLUGIN_API_VERSION

\* versions reported by modules built against another header
OtherVersions == {1, 3}

\* the modules a host may be asked to load: the two plugins of the repository
\* and, for the call-table binding, modules of another API version (the
\* resource binding has no version integer: 0)
Modules(b) ==
    IF b = "A"
    THEN {[name |-> "gain_c", version |-> g_plugin_api_version]}
            \cup {[name |-> "other", version |-> v] : v \in OtherVersions}
    ELSE {[name |-> "gain_filter_c", version |-> 0]}

\* the key the binding's schema declares, and a key it does not
Key(b) == IF b = "A" THEN "key_gain" ELSE "key_gain_db"
OtherKey(b) == IF b = "A" THEN "key_gain_db" ELSE "key_gain"

\* {"<key>": <value>}
Object(key, value) ==
    Str(<<Tok("lbrace"), Tok(key), Tok("colon"), Tok("space"), value, Tok("rbrace")>>)

\* numbers a payload asks for: below the range, inside it, above it, not a number
Requested(b) ==
    IF b = "A" THEN {F(-1000), F(500), F(2000), F(5000), NaN}
    ELSE {F(-80000), F(-20000), F(6000), F(30000), NaN}

AbsentParams == {NullParams}
EmptyParams == {Str(<<>>)}
KeyMissingParams(b) ==
    {Str(<<Tok("lbrace"), Tok("rbrace")>>), Object(OtherKey(b), Num(F(2000)))}
UnparsableParams(b) ==
    {Object(Key(b), Tok("junk")), Str(<<Tok("lbrace"), Tok(Key(b)), Tok("colon"), Tok("rbrace")>>)}
NumericParams(b) == {Object(Key(b), Num(v)) : v \in Requested(b)}

Params(b) ==
    AbsentParams \cup EmptyParams \cup KeyMissingParams(b)
        \cup UnparsableParams(b) \cup NumericParams(b)

SampleValues == {F(100), F(-200)}
\* the audio formats of the frames the host sends: <<sample_rate, channels>>
Formats == {<<16000, 1>>, <<48000, 2>>}
OtherTags == {"Text", "Binary"}

SampleArrays == UNION {[1..n -> SampleValues] : n \in 0..MaxSamples}

AudioPacket(rate, ch, samples) ==
    [tag |-> "RawAudio", sample_rate |-> rate, channels |-> ch,
     samples |-> samples, sample_count |-> Len(samples)]
OtherPacket(tag) ==
    [tag |-> tag, sample_rate |-> 0, channels |-> 0, samples |-> <<>>, sample_count |-> 0]
NoPacket == OtherPacket("None")

Packets ==
    {AudioPacket(f[1], f[2], s) : f \in Formats, s \in SampleArrays}
        \cup {OtherPacket(t) : t \in OtherTags}

\* what gain_process_packet is handed in packet->data: a frame ("ok"), the NULL
\* pointer ("NULL": there is no frame, hence no field to read), or a frame whose
\* samples pointer is NULL ("samples NULL")
ProcessInputs ==
    {[packet |-> p, frame |-> "ok"] : p \in Packets}
        \cup {[packet |-> AudioPacket(0, 0, <<>>), frame |-> "NULL"]}
        \cup {[packet |-> [AudioPacket(f[1], f[2], <<>>) EXCEPT !.sample_count = n],
                frame |-> "samples NULL"] : f \in Formats, n \in {0, MaxSamples}}

\* what a load from freed instance state may yield
FreedReads == {F(0), NaN}

(***************************************************************************)
(* State                                                                   *)
(***************************************************************************)
VARIABLES
    binding,    \* the binding of the module the host loads: "A" or "B"
    module,     \* that module: its name and the version its API descriptor reports
    phase,      \* the host's side of the lifecycle (the handle it holds)
    heap,       \* the instance state's allocation: "none", "alloc", "freed"
    state,      \* the bytes of the instance state: [gain, log_cb]
    frees,      \* free() calls made on the instance state
    uaf,        \* the instance state was read or written while not allocated
    cleanups,   \* Variant B: cleanup() calls the host has made
    stream,     \* the process calls so far: how many, which were accepted, and
                \* the calls whose packet reached the host's output callback, in
                \* the order of the callback's invocations
    last        \* the last call: its arguments, result and everything it did

\* two instances of the loaded module on one heap (specification SpecTwo)
VARIABLES
    chunks,     \* the heap blocks an instance state may occupy: allocated?, content
    inst,       \* per instance: its phase, the block its handle points to, ...
    call        \* the call in progress on one of the two instances

twoVars == <<chunks, inst, call>>

\* an instance of Variant A and one of Variant B driven by the same calls
\* (specification SpecPair)
VARIABLE pair

vars == <<binding, module, twoVars, pair, stream, phase, heap, state, frees, uaf, cleanups, last>>

Ev(k, o) == [k |-> k, o |-> o]
Log(level, msg, a, b) == [level |-> level, msg |-> msg, a |-> a, b |-> b]

NULL == "NULL"
CResult_success == [success |-> TRUE, error_message |-> NULL]

\* an error result that drops its message
CResult_error_without_message(msg) == [success |-> FALSE, error_message |-> NULL]

CResult_error(msg) == [success |-> FALSE, error_message |-> msg]

(***************************************************************************)
(* Node metadata                                                           *)
(***************************************************************************)
DEFAULT_SAMPLE_RATE == 48000
DEFAULT_CHANNELS == 1

CAudioFormat(sample_rate, channels, sample_format) ==
    [sample_rate |-> sample_rate, channels |-> channels, sample_format |-> sample_format]

\* audio_format is NoFormat (the NULL pointer) for every tag but RawAudio
NoFormat == CAudioFormat(0, 0, "none")
CPacketTypeInfo(type_discriminant, audio_format) ==
    [type_discriminant |-> type_discriminant, audio_format |-> audio_format]

\* the "properties" entry of a param_schema string
ParamSchema(property, default, minimum, maximum) ==
    [property |-> property, default |-> default, minimum |-> minimum, maximum |-> maximum]

\* Variant A: the static const tables
\* an input format pinned to one rate and channel count
g_audio_format_pinned == CAudioFormat(DEFAULT_SAMPLE_RATE, DEFAULT_CHANNELS, "F32")

g_audio_format == CAudioFormat(0, 0, "F32")
g_input_types == <<CPacketTypeInfo("RawAudio", g_audio_format)>>
g_inputs == <<[name |-> "in", accepts_types |-> g_input_types]>>
g_outputs ==
    <<[name |-> "out", produces_type |-> CPacketTypeInfo("RawAudio", g_audio_format)]>>
g_categories == <<"audio", "filters">>
g_metadata ==
    [kind |-> "gain_c", inputs |-> g_inputs, outputs |-> g_outputs,
     param_schema |-> ParamSchema("gain", DEFAULT_GAIN, MIN_GAIN, MAX_GAIN),
     categories |-> g_categories]

\* Variant B: the value exports_streamkit_plugin_node_metadata builds on each call
\* (its allocations taken to succeed)
node_metadata ==
    LET raw_audio == CPacketTypeInfo("RawAudio",
                        CAudioFormat(DEFAULT_SAMPLE_RATE, DEFAULT_CHANNELS, "F32"))
    IN  [kind |-> "gain_filter_c",
         inputs |-> <<[name |-> "in", accepts_types |-> <<raw_audio>>]>>,
         outputs |-> <<[name |-> "out", produces_type |-> raw_audio]>>,
         param_schema |-> ParamSchema("gain_db", F(0), MIN_GAIN_DB, MAX_GAIN_DB),
         categories |-> <<"audio", "filters">>]

NoMetadata ==
    [kind |-> "none", inputs |-> <<>>, outputs |-> <<>>,
     param_schema |-> ParamSchema("none", F(0), F(0), F(0)), categories |-> <<>>]

\* the packet types an upstream output pin may offer
OtherPacketTypes == {"OpusAudio", "Text", "Any"}
OfferedRates == {0, 16000, 48000}
OfferedChannels == {0, 1, 2}
SampleFormats == {"F32", "S16LE"}
OfferedTypes ==
    {CPacketTypeInfo("RawAudio", CAudioFormat(r, c, f)) :
        r \in OfferedRates, c \in OfferedChannels, f \in SampleFormats}
        \cup {CPacketTypeInfo(t, NoFormat) : t \in OtherPacketTypes}

NoCall ==
    [op |-> "none", metadata |-> NoMetadata,
     offered |-> CPacketTypeInfo("none", NoFormat), compatible |-> FALSE,
     cb |-> CResult_success, frame |-> "ok", params |-> NullParams, packet |-> NoPacket, packetAfter |-> NoPacket,
     result |-> CResult_success, trace |-> <<>>, sent |-> <<>>, logs |-> <<>>,
     gainBefore |-> F(0), handle |-> "none", oom |-> FALSE]

\* the effect of one memory event on the instance state's allocation
MemStep(mem, e) ==
    IF e.o # "state" THEN mem
    ELSE CASE e.k = "malloc" -> [mem EXCEPT !.heap = "alloc"]
           [] e.k \in {"read", "write"} -> [mem EXCEPT !.uaf = @ \/ mem.heap # "alloc"]
           [] e.k = "free" -> [mem EXCEPT !.heap = "freed", !.frees = @ + 1]
           [] OTHER -> mem

RECURSIVE Replay(_, _)
Replay(mem, trace) ==
    IF trace = <<>> THEN mem ELSE Replay(MemStep(mem, Head(trace)), Tail(trace))

Mem == [heap |-> heap, frees |-> frees, uaf |-> uaf]

\* the events of a loop of n iterations, each making the events body
RECURSIVE Times(_, _)
Times(n, body) == IF n = 0 THEN <<>> ELSE body \o Times(n - 1, body)

\* no call is in flight: the host has taken the result of the one before (the
\* host serializes the calls it makes on an instance)
Idle == last.op = "none"

NoStream == [calls |-> 0, accepted |-> <<>>, delivered |-> <<>>]

\* the invocations of the host's output callback among the events of a call
SendCount(trace) == Cardinality({i \in 1..Len(trace) : trace[i].k = "send"})

\* the stream after one more process call: accepted tells whether the call got
\* past its checks and its allocation, trace is what the call did
process_call(str, accepted, trace) ==
    [calls |-> str.calls + 1,
     accepted |-> IF accepted THEN Append(str.accepted, str.calls + 1) ELSE str.accepted,
     delivered |-> str.delivered \o [k \in 1..SendCount(trace) |-> str.calls + 1]]

MaxChunks == 2
Chunks == 1..MaxChunks
Instances == {1, 2}

\* no block is allocated; a block keeps its content when it is freed
NoChunks == [c \in Chunks |-> [alloc |-> FALSE, gain |-> F(0)]]

\* solo: the gain the instance's own create and update_params calls establish
NoInstance == [phase |-> "Uninitialized", chunk |-> 0, cleanups |-> 0, solo |-> F(0)]

\* the pair before create: no gain yet, no call made
NoPair ==
    [phase |-> "Uninitialized", gainA |-> F(0), gainB |-> F(0),
     op |-> "none", class |-> "none", paramsA |-> NullParams, paramsB |-> NullParams,
     beforeA |-> F(0), beforeB |-> F(0), okA |-> TRUE, okB |-> TRUE]

NoCallTwo ==
    [op |-> "none", inst |-> 0, packet |-> NoPacket, result |-> CResult_success,
     sent |-> <<>>, expected |-> <<>>]

Init ==
    /\ binding \in Bindings
    /\ module \in Modules(binding)
    /\ phase = "Unloaded"
    /\ heap = "none"
    /\ state = [gain |-> F(0), log_cb |-> FALSE]
    /\ frees = 0
    /\ uaf = FALSE
    /\ cleanups = 0
    /\ last = NoCall
    /\ chunks = NoChunks
    /\ inst = [i \in Instances |-> NoInstance]
    /\ call = NoCallTwo
    /\ pair = NoPair
    /\ stream = NoStream

(***************************************************************************)
(* Loading (the host's side, spec 4.1): the declared version is compared   *)
(* with the host's own before any other call; a mismatch rejects the       *)
(* module for good.                                                        *)
(***************************************************************************)
host_accepts_version(b, version) ==
    b = "B" \/ version = STREAMKIT_NATIVE_PLUGIN_API_VERSION

host_load_module ==
    /\ Idle
    /\ phase = "Unloaded"
    /\ phase' = IF host_accepts_version(binding, module.version)
                THEN "Uninitialized" ELSE "Rejected"
    /\ last' = [NoCall EXCEPT !.op = "load"]
    /\ UNCHANGED <<binding, module, twoVars, pair, stream, heap, state, frees, uaf, cleanups>>

\* the phases in which the host can call into the loaded module
Callable == {"Uninitialized", "Created", "Failed", "Destroyed"}

\* a metadata table whose schema default follows the instance's current gain
get_metadata_live_default(b) ==
    IF b = "A"
    THEN [g_metadata EXCEPT !.param_schema.default = state.gain]
    ELSE [node_metadata EXCEPT !.param_schema.default = state.gain]

\* gain_get_metadata returns &g_metadata; the Variant B export returns the value
\* it builds
get_metadata(b) == IF b = "A" THEN g_metadata ELSE node_metadata

(***************************************************************************)
(* Pin negotiation (the host's side, spec 4.2), once per connection and    *)
(* ahead of processing: the offered type is compatible with one of the     *)
(* types the input pin accepts.  Tags must match; for RawAudio the rate    *)
(* and the channel count must be equal unless the required one is the      *)
(* wildcard 0, and the sample format, which has no wildcard (spec 3), must *)
(* be equal.                                                               *)
(***************************************************************************)
compatible(offered, required) ==
    /\ offered.type_discriminant = required.type_discriminant
    /\ offered.type_discriminant = "RawAudio" =>
        /\ \/ required.audio_format.sample_rate = 0
           \/ offered.audio_format.sample_rate = required.audio_format.sample_rate
        /\ \/ required.audio_format.channels = 0
           \/ offered.audio_format.channels = required.audio_format.channels
        /\ offered.audio_format.sample_format = required.audio_format.sample_format

pin_accepts(pin, offered) ==
    \E k \in 1..Len(pin.accepts_types) : compatible(offered, pin.accepts_types[k])

\* the host wires an output offering some type to the node's first input pin
host_negotiates_pin ==
    /\ Idle
    /\ phase = "Uninitialized"
    /\ \E offered \in OfferedTypes :
        last' = [NoCall EXCEPT
                    !.op = "negotiate", !.offered = offered,
                    !.compatible = pin_accepts(get_metadata(binding).inputs[1], offered)]
    /\ UNCHANGED <<binding, module, twoVars, pair, stream, phase, heap, state, frees, uaf, cleanups>>

(***************************************************************************)
(* Variant A: gain-native-c/gain_plugin.c                                  *)
(***************************************************************************)
gain_get_metadata ==
    /\ Idle
    /\ binding = "A"
    /\ phase \in Callable
    /\ last' = [NoCall EXCEPT !.op = "get_metadata", !.metadata = get_metadata("A")]
    /\ UNCHANGED <<binding, module, twoVars, pair, stream, phase, heap, state, frees, uaf, cleanups>>

\* plugin_log(state, level, msg): reads state->log_cb, calls it if set
plugin_log(log_cb) ==
    <<Ev("read", "state")>> \o (IF log_cb THEN <<Ev("log", "host")>> ELSE <<>>)

gain_create_instance ==
    /\ Idle
    /\ binding = "A"
    /\ phase = "Uninitialized"
    /\ \E params \in Params("A"), log_callback \in BOOLEAN, mallocOk \in BOOLEAN :
        LET g == parse_gain(params)
            trace == IF mallocOk
                     THEN <<Ev("malloc", "state"), Ev("write", "state"), Ev("write", "state"),
                            Ev("write", "state"), Ev("read", "state")>> \o plugin_log(log_callback)
                     ELSE <<>>
            mem == Replay(Mem, trace)
        IN  /\ heap' = mem.heap
            /\ frees' = mem.frees
            /\ uaf' = mem.uaf
            /\ state' = IF mallocOk THEN [gain |-> g, log_cb |-> log_callback] ELSE state
            /\ phase' = IF mallocOk THEN "Created" ELSE "Failed"
            /\ last' = [NoCall EXCEPT
                          !.op = "create", !.params = params,
                          !.handle = IF mallocOk THEN "state" ELSE "NULL",
                          !.oom = ~mallocOk,
                          !.trace = trace,
                          !.logs = IF mallocOk /\ log_callback
                                   THEN <<Log("info", "created", g, F(0))>> ELSE <<>>,
                          !.gainBefore = state.gain]
    /\ UNCHANGED <<binding, module, twoVars, pair, stream, cleanups>>

\* a process_packet that takes every packet for audio
accepts_any_packet_type(tag) == TRUE

\* the type check of gain_process_packet
accepts_packet_type(tag) == tag = "RawAudio"

\* the loop of gain_process_packet: output_samples[i] = samples[i] * gain
apply_gain(samples, sample_count, gain) ==
    [i \in 1..sample_count |-> FMul(samples[i], gain)]

\* an output frame stamped with a fixed format instead of the input's
output_packet_fixed_format(input_frame, output_samples) ==
    [tag |-> "RawAudio", sample_rate |-> 48000, channels |-> 1,
     samples |-> output_samples, sample_count |-> input_frame.sample_count]

\* the output frame and packet gain_process_packet builds
output_packet(input_frame, output_samples) ==
    [tag |-> "RawAudio", sample_rate |-> input_frame.sample_rate,
     channels |-> input_frame.channels, samples |-> output_samples,
     sample_count |-> input_frame.sample_count]

\* a process_packet that keeps the scaled frame for a later call instead of
\* handing it to the output callback
process_packet_trace_buffers(sample_count) ==
    <<Ev("malloc", "out")>>
        \o Times(sample_count, <<Ev("read", "in"), Ev("read", "state"), Ev("write", "out")>>)

\* a process_packet that releases the output buffer before it sends the packet
process_packet_trace_free_before_send(sample_count) ==
    <<Ev("malloc", "out")>>
        \o Times(sample_count, <<Ev("read", "in"), Ev("read", "state"), Ev("write", "out")>>)
        \o <<Ev("free", "out"), Ev("send", "host")>>

\* the memory events of gain_process_packet once the output buffer is allocated
process_packet_trace(sample_count) ==
    <<Ev("malloc", "out")>>
        \o Times(sample_count, <<Ev("read", "in"), Ev("read", "state"), Ev("write", "out")>>)
        \o <<Ev("send", "host"), Ev("free", "out")>>

\* a process_packet that scales the caller's samples where they are
process_packet_in_place(gain, packet, mallocOk, cb) ==
    IF packet.tag # "RawAudio"
    THEN [result |-> CResult_error("Gain plugin only accepts audio packets"),
          trace |-> <<>>, sent |-> <<>>, packetAfter |-> packet, oom |-> FALSE]
    ELSE LET scaled == [packet EXCEPT
                          !.samples = [i \in 1..packet.sample_count |->
                                          FMul(packet.samples[i], gain)]]
         IN  [result |-> cb, oom |-> FALSE,
              trace |-> Times(packet.sample_count,
                              <<Ev("read", "in"), Ev("read", "state"), Ev("write", "in")>>)
                          \o <<Ev("send", "host")>>,
              sent |-> <<[pin |-> "out", packet |-> scaled]>>,
              packetAfter |-> scaled]

\* a process_packet that drops what the output callback returned
process_packet_reports_success(gain, packet, mallocOk, cb) ==
    IF packet.tag # "RawAudio"
    THEN [result |-> CResult_error("Gain plugin only accepts audio packets"),
          trace |-> <<>>, sent |-> <<>>, packetAfter |-> packet, oom |-> FALSE]
    ELSE IF ~mallocOk
    THEN [result |-> CResult_error("Failed to allocate output buffer"),
          trace |-> <<>>, sent |-> <<>>, packetAfter |-> packet, oom |-> TRUE]
    ELSE [result |-> CResult_success, oom |-> FALSE,
          trace |-> <<Ev("malloc", "out")>>
                      \o Times(packet.sample_count,
                               <<Ev("read", "in"), Ev("read", "state"), Ev("write", "out")>>)
                      \o <<Ev("send", "host"), Ev("free", "out")>>,
          sent |-> <<[pin |-> "out",
                      packet |-> [packet EXCEPT
                                    !.samples = [i \in 1..packet.sample_count |->
                                                    FMul(packet.samples[i], gain)]]]>>,
          packetAfter |-> packet]

\* gain_process_packet on a non-null handle whose state holds gain; mallocOk: the
\* output buffer was allocated; cb: what the host's output callback returns
process_packet(gain, packet, mallocOk, cb) ==
    IF ~accepts_packet_type(packet.tag)
    THEN [result |-> CResult_error("Gain plugin only accepts audio packets"),
          trace |-> <<>>, sent |-> <<>>, packetAfter |-> packet, oom |-> FALSE]
    ELSE IF ~mallocOk
    THEN [result |-> CResult_error("Failed to allocate output buffer"),
          trace |-> <<>>, sent |-> <<>>, packetAfter |-> packet, oom |-> TRUE]
    ELSE [result |-> cb, oom |-> FALSE,
          trace |-> process_packet_trace(packet.sample_count),
          sent |-> <<[pin |-> "out",
                      packet |-> output_packet(packet,
                                     apply_gain(packet.samples, packet.sample_count, gain))]>>,
          packetAfter |-> packet]

CallbackResults ==
    {CResult_success, CResult_error("send failed"), CResult_error("pin closed")}

\* a gain_process_packet without the handle and frame checks
process_packet_unchecked(handle, frame, gain, packet, mallocOk, cb) ==
    process_packet(gain, packet, mallocOk, cb)

\* gain_process_packet from its first line: the handle check, then the tag check,
\* then the check of the frame and of its samples pointer
process_packet_checked(handle, frame, gain, packet, mallocOk, cb) ==
    IF handle = NULL
    THEN [result |-> CResult_error("Null handle"),
          trace |-> <<>>, sent |-> <<>>, packetAfter |-> packet, oom |-> FALSE]
    ELSE IF accepts_packet_type(packet.tag) /\ frame # "ok"
    THEN [result |-> CResult_error("Invalid audio frame"),
          trace |-> <<>>, sent |-> <<>>, packetAfter |-> packet, oom |-> FALSE]
    ELSE process_packet(gain, packet, mallocOk, cb)

gain_process_packet ==
    /\ Idle
    /\ binding = "A"
    /\ phase = "Created"
    /\ stream.calls < MaxProcessCalls
    /\ \E input \in ProcessInputs, mallocOk \in BOOLEAN, cb \in CallbackResults :
        LET packet == input.packet
            r == process_packet_checked("state", input.frame, state.gain, packet,
                                        mallocOk, cb)
            mem == Replay(Mem, r.trace)
        IN  /\ stream' = process_call(stream,
                            packet.tag = "RawAudio" /\ input.frame = "ok" /\ mallocOk,
                            r.trace)
            /\ heap' = mem.heap
            /\ frees' = mem.frees
            /\ uaf' = mem.uaf
            /\ last' = [NoCall EXCEPT
                          !.op = "process", !.packet = packet, !.packetAfter = r.packetAfter,
                          !.result = r.result, !.trace = r.trace, !.sent = r.sent,
                          !.cb = IF r.sent # <<>> THEN cb ELSE CResult_success,
                          !.frame = input.frame, !.handle = "state",
                          !.oom = r.oom, !.gainBefore = state.gain]
    /\ UNCHANGED <<binding, module, twoVars, pair, phase, state, cleanups>>

\* the handle a host may pass besides the one create returned
\* (the instance is left alone: the host passes NULL, as it does after a create
\* that returned NULL)
NullHandlePhases == {"Created", "Failed"}

\* gain_process_packet(NULL, ...)
gain_process_packet_null_handle ==
    /\ Idle
    /\ binding = "A"
    /\ phase \in NullHandlePhases
    /\ \E input \in ProcessInputs, mallocOk \in BOOLEAN, cb \in CallbackResults :
        LET r == process_packet_checked(NULL, input.frame, state.gain, input.packet,
                                        mallocOk, cb)
            mem == Replay(Mem, r.trace)
        IN  /\ heap' = mem.heap
            /\ frees' = mem.frees
            /\ uaf' = mem.uaf
            /\ last' = [NoCall EXCEPT
                          !.op = "process_null_handle", !.handle = NULL,
                          !.result = r.result, !.trace = r.trace, !.sent = r.sent,
                          !.gainBefore = state.gain]
    /\ UNCHANGED <<binding, module, twoVars, pair, stream, phase, state, cleanups>>

\* a gain_update_params that refuses a payload whose "gain" has no number
update_params_rejects_unparsable(handle, gain, params, log_cb) ==
    IF handle = NULL
    THEN [result |-> CResult_error("Null handle"), gain |-> gain,
          trace |-> <<>>, logs |-> <<>>]
    ELSE IF params \in UnparsableParams("A")
    THEN [result |-> CResult_error("Invalid params"), gain |-> gain,
          trace |-> <<>>, logs |-> <<>>]
    ELSE [result |-> CResult_success, gain |-> parse_gain(params),
          trace |-> <<Ev("read", "state"), Ev("write", "state"), Ev("read", "state")>>
                      \o plugin_log(log_cb),
          logs |-> IF log_cb THEN <<Log("info", "updated", gain, parse_gain(params))>>
                   ELSE <<>>]

\* gain_update_params on a state that holds gain and log_cb
update_params(handle, gain, params, log_cb) ==
    IF handle = NULL
    THEN [result |-> CResult_error("Null handle"), gain |-> gain,
          trace |-> <<>>, logs |-> <<>>]
    ELSE [result |-> CResult_success, gain |-> parse_gain(params),
          trace |-> <<Ev("read", "state"), Ev("write", "state"), Ev("read", "state")>>
                      \o plugin_log(log_cb),
          logs |-> IF log_cb THEN <<Log("info", "updated", gain, parse_gain(params))>>
                   ELSE <<>>]

gain_update_params ==
    /\ Idle
    /\ binding = "A"
    /\ phase = "Created"
    /\ \E params \in Params("A") :
        LET r == update_params("state", state.gain, params, state.log_cb)
            mem == Replay(Mem, r.trace)
        IN  /\ heap' = mem.heap
            /\ frees' = mem.frees
            /\ uaf' = mem.uaf
            /\ state' = [state EXCEPT !.gain = r.gain]
            /\ last' = [NoCall EXCEPT
                          !.op = "update_params", !.params = params, !.handle = "state",
                          !.result = r.result, !.trace = r.trace, !.logs = r.logs,
                          !.gainBefore = state.gain]
    /\ UNCHANGED <<binding, module, twoVars, pair, stream, phase, cleanups>>

\* gain_update_params(NULL, params)
gain_update_params_null_handle ==
    /\ Idle
    /\ binding = "A"
    /\ phase \in NullHandlePhases
    /\ \E params \in Params("A") :
        LET r == update_params(NULL, state.gain, params, state.log_cb)
            mem == Replay(Mem, r.trace)
        IN  /\ heap' = mem.heap
            /\ frees' = mem.frees
            /\ uaf' = mem.uaf
            /\ state' = [state EXCEPT !.gain = r.gain]
            /\ last' = [NoCall EXCEPT
                          !.op = "update_params_null_handle", !.handle = NULL,
                          !.params = params,
                          !.result = r.result, !.trace = r.trace, !.logs = r.logs,
                          !.gainBefore = state.gain]
    /\ UNCHANGED <<binding, module, twoVars, pair, stream, phase, cleanups>>

\* a flush that drains: it pushes an empty frame through the output callback
flush_drains(gain, cb) ==
    [result |-> cb, gain |-> gain, trace |-> <<Ev("send", "host")>>,
     sent |-> <<[pin |-> "out", packet |-> NoPacket]>>]

\* gain_flush: every argument is ignored ((void) casts) and success is returned
flush(gain, cb) ==
    [result |-> CResult_success, gain |-> gain, trace |-> <<>>, sent |-> <<>>]

gain_flush ==
    /\ Idle
    /\ binding = "A"
    /\ phase = "Created"
    /\ \E cb \in CallbackResults :
        LET r == flush(state.gain, cb)
        IN  /\ state' = [state EXCEPT !.gain = r.gain]
            /\ last' = [NoCall EXCEPT !.op = "flush", !.result = r.result,
                                      !.trace = r.trace, !.sent = r.sent,
                                      !.gainBefore = state.gain]
    /\ UNCHANGED <<binding, module, twoVars, pair, stream, phase, heap, frees, uaf, cleanups>>

\* a destroy that frees the state before it logs through it
destroy_instance_trace_free_first(log_cb) ==
    <<Ev("free", "state")>> \o plugin_log(log_cb)

\* what gain_destroy_instance does with a non-null handle: log, then free
destroy_instance_trace(log_cb) ==
    plugin_log(log_cb) \o <<Ev("free", "state")>>

\* gain_destroy_instance: the whole body is under if (handle)
destroy_instance(handle, log_cb) ==
    IF handle = NULL THEN <<>> ELSE destroy_instance_trace(log_cb)

\* gain_destroy_instance(NULL)
gain_destroy_instance_null_handle ==
    /\ Idle
    /\ binding = "A"
    /\ phase \in NullHandlePhases
    /\ LET trace == destroy_instance(NULL, state.log_cb)
           mem == Replay(Mem, trace)
       IN  /\ heap' = mem.heap
           /\ frees' = mem.frees
           /\ uaf' = mem.uaf
           /\ last' = [NoCall EXCEPT
                         !.op = "destroy_null_handle", !.handle = NULL, !.trace = trace,
                         !.logs = IF trace # <<>> /\ state.log_cb
                                  THEN <<Log("info", "destroying", F(0), F(0))>> ELSE <<>>,
                         !.gainBefore = state.gain]
    /\ UNCHANGED <<binding, module, twoVars, pair, stream, phase, state, cleanups>>

gain_destroy_instance ==
    /\ Idle
    /\ binding = "A"
    /\ phase = "Created"
    /\ LET trace == destroy_instance("state", state.log_cb)
           mem == Replay(Mem, trace)
       IN  /\ heap' = mem.heap
           /\ frees' = mem.frees
           /\ uaf' = mem.uaf
           /\ last' = [NoCall EXCEPT
                         !.op = "destroy", !.trace = trace,
                         !.logs = IF state.log_cb
                                  THEN <<Log("info", "destroying", F(0), F(0))>> ELSE <<>>,
                         !.gainBefore = state.gain]
    /\ phase' = "Destroyed"
    /\ UNCHANGED <<binding, module, twoVars, pair, stream, state, cleanups>>

(***************************************************************************)
(* Variant B: gain-wasm-c/gain_plugin.c                                    *)
(***************************************************************************)
exports_streamkit_plugin_node_metadata ==
    /\ Idle
    /\ binding = "B"
    /\ phase \in Callable
    /\ last' = [NoCall EXCEPT !.op = "get_metadata", !.metadata = get_metadata("B")]
    /\ UNCHANGED <<binding, module, twoVars, pair, stream, phase, heap, state, frees, uaf, cleanups>>

\* maybe_params && maybe_params->ptr && maybe_params->len > 0
has_params(maybe_params) == ~maybe_params.null /\ Len(maybe_params.toks) > 0

\* the gain in dB the constructor settles on
constructor_gain_db(maybe_params) ==
    IF has_params(maybe_params)
    THEN clamp_f32(parse_gain_db(maybe_params), MIN_GAIN_DB, MAX_GAIN_DB)
    ELSE F(0)

\* a constructor that reports the failed allocation through the host's log
constructor_trace_logs_failure(mallocOk) ==
    IF mallocOk
    THEN <<Ev("malloc", "state"), Ev("write", "state"), Ev("read", "state"),
           Ev("log", "host")>>
    ELSE <<Ev("log", "host")>>

\* the memory and host events of the constructor: nothing when malloc fails
constructor_trace(mallocOk) ==
    IF mallocOk
    THEN <<Ev("malloc", "state"), Ev("write", "state"), Ev("read", "state"),
           Ev("log", "host")>>
    ELSE <<>>

exports_streamkit_plugin_node_constructor_node_instance ==
    /\ Idle
    /\ binding = "B"
    /\ phase = "Uninitialized"
    /\ \E maybe_params \in Params("B"), mallocOk \in BOOLEAN :
        LET gain_db == constructor_gain_db(maybe_params)
            gain_linear == db_to_linear(gain_db)
            trace == constructor_trace(mallocOk)
            mem == Replay(Mem, trace)
        IN  /\ heap' = mem.heap
            /\ frees' = mem.frees
            /\ uaf' = mem.uaf
            /\ state' = IF mallocOk THEN [gain |-> gain_linear, log_cb |-> TRUE] ELSE state
            /\ phase' = IF mallocOk THEN "Created" ELSE "Failed"
            /\ last' = [NoCall EXCEPT
                          !.op = "create", !.params = maybe_params,
                          !.handle = IF mallocOk THEN "state" ELSE "NULL",
                          !.oom = ~mallocOk,
                          !.trace = trace,
                          !.logs = IF mallocOk
                                   THEN <<Log("info", "constructed", gain_db, gain_linear)>>
                                   ELSE <<>>,
                          !.gainBefore = state.gain]
    /\ UNCHANGED <<binding, module, twoVars, pair, stream, cleanups>>

\* the type check of process
is_audio_packet(tag) == tag = "RawAudio"

\* the loop of process: samples.ptr[i] *= state->gain_linear, where reads[i] is
\* what the i-th load of state->gain_linear yields
scale_in_place(samples, reads) ==
    [i \in 1..Len(samples) |-> FMul(samples[i], reads[i])]

\* process; send: what the host's send_output returns (send_ok and send_err)
node_instance_process(packet, reads, send) ==
    IF ~is_audio_packet(packet.tag)
    THEN [result |-> CResult_error("Gain filter only accepts audio packets"),
          trace |-> <<Ev("log", "host")>>, sent |-> <<>>, packetAfter |-> packet,
          logs |-> <<Log("debug", "process called", F(0), F(0))>>]
    ELSE LET scaled == [packet EXCEPT !.samples = scale_in_place(packet.samples, reads)]
         IN  [result |-> IF send.success THEN CResult_success
                         ELSE CResult_error(send.error_message),
              trace |-> <<Ev("log", "host"), Ev("read", "state"), Ev("log", "host")>>
                          \o Times(Len(packet.samples),
                                   <<Ev("read", "in"), Ev("read", "state"), Ev("write", "in")>>)
                          \o <<Ev("log", "host"), Ev("send", "host"), Ev("log", "host")>>,
              sent |-> <<[pin |-> "out", packet |-> scaled]>>,
              packetAfter |-> scaled,
              logs |-> <<Log("debug", "process called", F(0), F(0)),
                         Log("debug", "processing", F(0), F(0)),
                         Log("debug", "samples processed", F(0), F(0)),
                         IF send.success THEN Log("debug", "completed", F(0), F(0))
                         ELSE Log("error", "send_output failed", F(0), F(0))>>]

\* what the loads of state->gain_linear in one process call may yield
GainReads(n) ==
    IF heap = "alloc" THEN {[i \in 1..n |-> state.gain]} ELSE [1..n -> FreedReads]

exports_streamkit_plugin_node_method_node_instance_process ==
    /\ Idle
    /\ binding = "B"
    /\ phase = "Created"
    /\ stream.calls < MaxProcessCalls
    /\ \E packet \in Packets, send \in CallbackResults :
        \E reads \in GainReads(Len(packet.samples)) :
            LET r == node_instance_process(packet, reads, send)
                mem == Replay(Mem, r.trace)
            IN  /\ stream' = process_call(stream, packet.tag = "RawAudio", r.trace)
                /\ heap' = mem.heap
                /\ frees' = mem.frees
                /\ uaf' = mem.uaf
                /\ last' = [NoCall EXCEPT
                              !.op = "process", !.packet = packet,
                              !.packetAfter = r.packetAfter, !.result = r.result,
                              !.trace = r.trace, !.sent = r.sent, !.logs = r.logs,
                              !.cb = IF r.sent # <<>> THEN send ELSE CResult_success,
                              !.gainBefore = state.gain]
    /\ UNCHANGED <<binding, module, twoVars, pair, phase, state, cleanups>>

\* update_params: the new gain_linear, or the old one when there are no params;
\* both returns are "return true" and err is never written
node_instance_update_params(gain_linear, maybe_params) ==
    IF ~has_params(maybe_params)
    THEN [result |-> CResult_success, gain |-> gain_linear, trace |-> <<>>, logs |-> <<>>]
    ELSE LET gain_db == clamp_f32(parse_gain_db(maybe_params), MIN_GAIN_DB, MAX_GAIN_DB)
         IN  [result |-> CResult_success,
              gain |-> db_to_linear(gain_db),
              trace |-> <<Ev("write", "state"), Ev("read", "state"), Ev("log", "host")>>,
              logs |-> <<Log("info", "updated", gain_db, db_to_linear(gain_db))>>]

exports_streamkit_plugin_node_method_node_instance_update_params ==
    /\ Idle
    /\ binding = "B"
    /\ phase = "Created"
    /\ \E maybe_params \in Params("B") :
        LET r == node_instance_update_params(state.gain, maybe_params)
            mem == Replay(Mem, r.trace)
        IN  /\ heap' = mem.heap
            /\ frees' = mem.frees
            /\ uaf' = mem.uaf
            /\ state' = [state EXCEPT !.gain = r.gain]
            /\ last' = [NoCall EXCEPT
                          !.op = "update_params", !.params = maybe_params,
                          !.handle = "state",
                          !.result = r.result, !.trace = r.trace, !.logs = r.logs,
                          !.gainBefore = state.gain]
    /\ UNCHANGED <<binding, module, twoVars, pair, stream, phase, cleanups>>

\* cleanup: log, then free(state)
node_instance_cleanup_trace == <<Ev("log", "host"), Ev("free", "state")>>

\* free() of a block that is already free may abort the module or go unnoticed
exports_streamkit_plugin_node_method_node_instance_cleanup ==
    /\ Idle
    /\ binding = "B"
    /\ phase = "Created"
    /\ cleanups < MaxCleanups
    /\ LET trace == node_instance_cleanup_trace
           mem == Replay(Mem, trace)
       IN  /\ heap' = mem.heap
           /\ frees' = mem.frees
           /\ uaf' = mem.uaf
           /\ \E aborts \in BOOLEAN :
                phase' = IF aborts /\ heap = "freed" /\ mem.frees > frees
                         THEN "Aborted" ELSE phase
           /\ last' = [NoCall EXCEPT
                         !.op = "cleanup", !.trace = trace,
                         !.logs = <<Log("info", "shutting down", F(0), F(0))>>,
                         !.gainBefore = state.gain]
    /\ cleanups' = cleanups + 1
    /\ UNCHANGED <<binding, module, twoVars, pair, stream, state>>

\* the destructor: (void)rep
node_instance_destructor_trace == <<>>

exports_streamkit_plugin_node_node_instance_destructor ==
    /\ Idle
    /\ binding = "B"
    /\ phase = "Created"
    /\ LET trace == node_instance_destructor_trace
           mem == Replay(Mem, trace)
       IN  /\ heap' = mem.heap
           /\ frees' = mem.frees
           /\ uaf' = mem.uaf
           /\ last' = [NoCall EXCEPT !.op = "destructor", !.trace = trace,
                                     !.gainBefore = state.gain]
    /\ phase' = "Destroyed"
    /\ UNCHANGED <<binding, module, twoVars, pair, stream, state, cleanups>>

(***************************************************************************)
(* The host: create, then any calls, then destroy / drop of the handle     *)
(***************************************************************************)
\* the host takes the result of the call that returned; only then does it make
\* its next call
host_takes_result ==
    /\ ~Idle
    /\ last' = NoCall
    /\ UNCHANGED <<binding, module, twoVars, pair, stream, phase, heap, state, frees, uaf, cleanups>>

Next ==
    \/ host_load_module
    \/ host_takes_result
    \/ host_negotiates_pin
    \/ gain_get_metadata
    \/ exports_streamkit_plugin_node_metadata
    \/ gain_create_instance
    \/ gain_process_packet
    \/ gain_process_packet_null_handle
    \/ gain_update_params_null_handle
    \/ gain_destroy_instance_null_handle
    \/ gain_update_params
    \/ gain_flush
    \/ gain_destroy_instance
    \/ exports_streamkit_plugin_node_constructor_node_instance
    \/ exports_streamkit_plugin_node_method_node_instance_process
    \/ exports_streamkit_plugin_node_method_node_instance_update_params
    \/ exports_streamkit_plugin_node_method_node_instance_cleanup
    \/ exports_streamkit_plugin_node_node_instance_destructor

Spec == Init /\ [][Next]_vars

(***************************************************************************)
(* Two instances of one loaded module.  Each create mallocs its own state  *)
(* block; malloc may hand out any block that is not allocated, a block     *)
(* freed earlier included.  Every handler reaches the state through the    *)
(* handle it is given.  (The log callback field of Variant A is written    *)
(* once by create and is left out here.)                                   *)
(***************************************************************************)
oneVars == <<module, stream, phase, heap, state, frees, uaf, cleanups, last>>

InitTwo ==
    /\ binding \in Bindings
    /\ module \in {m \in Modules(binding) : host_accepts_version(binding, m.version)}
    /\ phase = "Uninitialized"
    /\ heap = "none"
    /\ state = [gain |-> F(0), log_cb |-> FALSE]
    /\ frees = 0
    /\ uaf = FALSE
    /\ cleanups = 0
    /\ last = NoCall
    /\ chunks = NoChunks
    /\ inst = [i \in Instances |-> NoInstance]
    /\ call = NoCallTwo
    /\ pair = NoPair
    /\ stream = NoStream

\* the gain create stores: state->gain = parse_gain(params) in Variant A,
\* state->gain_linear = db_to_linear(gain_db) in Variant B
create_gain(b, params) ==
    IF b = "A" THEN parse_gain(params) ELSE db_to_linear(constructor_gain_db(params))

\* the gain update_params leaves in a state that held g
update_gain(b, g, params) ==
    IF b = "A" THEN parse_gain(params) ELSE node_instance_update_params(g, params).gain

\* c = 0: malloc returned NULL
two_create_instance(i) ==
    /\ call.op = "none"
    /\ inst[i].phase = "Uninitialized"
    /\ \E params \in Params(binding), c \in Chunks \cup {0} :
        /\ c # 0 => ~chunks[c].alloc
        /\ IF c = 0
           THEN /\ inst' = [inst EXCEPT ![i].phase = "Failed"]
                /\ chunks' = chunks
           ELSE LET g == create_gain(binding, params)
                IN  /\ chunks' = [chunks EXCEPT ![c] = [alloc |-> TRUE, gain |-> g]]
                    /\ inst' = [inst EXCEPT ![i] = [phase |-> "Created", chunk |-> c,
                                                    cleanups |-> 0, solo |-> g]]
        /\ call' = [NoCallTwo EXCEPT !.op = "create", !.inst = i]
    /\ UNCHANGED <<binding, oneVars, pair>>

two_update_params(i) ==
    /\ call.op = "none"
    /\ inst[i].phase = "Created"
    /\ \E params \in Params(binding) :
        /\ chunks' = [chunks EXCEPT ![inst[i].chunk].gain = update_gain(binding, @, params)]
        /\ inst' = [inst EXCEPT ![i].solo = update_gain(binding, @, params)]
        /\ call' = [NoCallTwo EXCEPT !.op = "update_params", !.inst = i]
    /\ UNCHANGED <<binding, oneVars, pair>>

\* the packets the two instances are fed: mono 16 kHz frames of at most one
\* sample, and the packets of another tag
PacketsTwo ==
    {p \in Packets : p.sample_count <= 1 /\ p.sample_rate \in {0, 16000}}

\* what the loads of the gain through instance i's handle may yield
GainReadsTwo(i, n) ==
    IF chunks[inst[i].chunk].alloc
    THEN {[k \in 1..n |-> chunks[inst[i].chunk].gain]}
    ELSE [1..n -> FreedReads]

\* expected: what the call sends when the gain is the one the instance's own
\* calls established
two_process_packet(i) ==
    /\ call.op = "none"
    /\ inst[i].phase = "Created"
    /\ \E packet \in PacketsTwo, cb \in CallbackResults :
        IF binding = "A"
        THEN \E mallocOk \in BOOLEAN :
                LET r == process_packet(chunks[inst[i].chunk].gain, packet, mallocOk, cb)
                    e == process_packet(inst[i].solo, packet, mallocOk, cb)
                IN  call' = [NoCallTwo EXCEPT !.op = "process", !.inst = i,
                                !.packet = packet, !.result = r.result,
                                !.sent = r.sent, !.expected = e.sent]
        ELSE \E reads \in GainReadsTwo(i, Len(packet.samples)) :
                LET r == node_instance_process(packet, reads, cb)
                    e == node_instance_process(
                            packet, [k \in 1..Len(packet.samples) |-> inst[i].solo],
                            cb)
                IN  call' = [NoCallTwo EXCEPT !.op = "process", !.inst = i,
                                !.packet = packet, !.result = r.result,
                                !.sent = r.sent, !.expected = e.sent]
    /\ UNCHANGED <<binding, oneVars, pair, chunks, inst>>

\* gain_destroy_instance frees the state; the Variant B destructor frees nothing
two_destroy_instance(i) ==
    /\ call.op = "none"
    /\ inst[i].phase = "Created"
    /\ chunks' = IF binding = "A"
                 THEN [chunks EXCEPT ![inst[i].chunk].alloc = FALSE]
                 ELSE chunks
    /\ inst' = [inst EXCEPT ![i].phase = "Destroyed"]
    /\ call' = [NoCallTwo EXCEPT !.op = "destroy", !.inst = i]
    /\ UNCHANGED <<binding, oneVars, pair>>

\* cleanup (Variant B): free(state) on whatever the handle points to; the handle
\* stays live.  free() of a block that is already free may abort the module or
\* go unnoticed
two_cleanup(i) ==
    /\ call.op = "none"
    /\ binding = "B"
    /\ inst[i].phase = "Created"
    /\ inst[i].cleanups < MaxCleanups
    /\ IF chunks[inst[i].chunk].alloc
       THEN /\ chunks' = [chunks EXCEPT ![inst[i].chunk].alloc = FALSE]
            /\ inst' = [inst EXCEPT ![i].cleanups = @ + 1]
       ELSE /\ chunks' = chunks
            /\ \E aborts \in BOOLEAN :
                inst' = IF aborts
                        THEN [k \in Instances |-> [inst[k] EXCEPT !.phase = "Aborted"]]
                        ELSE [inst EXCEPT ![i].cleanups = @ + 1]
    /\ call' = [NoCallTwo EXCEPT !.op = "cleanup", !.inst = i]
    /\ UNCHANGED <<binding, oneVars, pair>>

two_host_takes_result ==
    /\ call.op # "none"
    /\ call' = NoCallTwo
    /\ UNCHANGED <<binding, oneVars, pair, chunks, inst>>

NextTwo ==
    \/ two_host_takes_result
    \/ \E i \in Instances :
        \/ two_create_instance(i)
        \/ two_update_params(i)
        \/ two_process_packet(i)
        \/ two_destroy_instance(i)
        \/ two_cleanup(i)

SpecTwo == InitTwo /\ [][NextTwo]_vars

(***************************************************************************)
(* The two variants side by side: one instance of each receives the same   *)
(* sequence of create and update_params calls, each call carrying, in the  *)
(* variant's own key and unit, a payload of the same class.                *)
(***************************************************************************)
PayloadClasses ==
    {"absent", "empty", "key_missing", "unparsable",
     "below_min", "in_range_1", "in_range_2", "above_max"}

\* the payloads of a class, in the key and unit of variant b (linear gain for
\* "A", decibels for "B")
ClassPayloads(b, class) ==
    CASE class = "absent" -> AbsentParams
      [] class = "empty" -> EmptyParams
      [] class = "key_missing" -> KeyMissingParams(b)
      [] class = "unparsable" -> UnparsableParams(b)
      [] class = "below_min" ->
            {Object(Key(b), Num(IF b = "A" THEN F(-1000) ELSE F(-80000)))}
      [] class = "in_range_1" ->
            {Object(Key(b), Num(IF b = "A" THEN F(500) ELSE F(-20000)))}
      [] class = "in_range_2" ->
            {Object(Key(b), Num(IF b = "A" THEN F(2000) ELSE F(6000)))}
      [] class = "above_max" ->
            {Object(Key(b), Num(IF b = "A" THEN F(5000) ELSE F(30000)))}

InitPair ==
    /\ binding = "A"
    /\ module \in {m \in Modules(binding) : host_accepts_version(binding, m.version)}
    /\ phase = "Uninitialized"
    /\ heap = "none"
    /\ state = [gain |-> F(0), log_cb |-> FALSE]
    /\ frees = 0
    /\ uaf = FALSE
    /\ cleanups = 0
    /\ last = NoCall
    /\ chunks = NoChunks
    /\ inst = [i \in Instances |-> NoInstance]
    /\ call = NoCallTwo
    /\ pair = NoPair
    /\ stream = NoStream

\* gain_create_instance and the Variant B constructor; both yield no handle when
\* malloc fails
pair_create_instance ==
    /\ pair.phase = "Uninitialized"
    /\ \E class \in PayloadClasses, mallocOk \in BOOLEAN :
        \E pa \in ClassPayloads("A", class), pb \in ClassPayloads("B", class) :
            pair' = IF mallocOk
                    THEN [NoPair EXCEPT
                            !.phase = "Created", !.gainA = create_gain("A", pa),
                            !.gainB = create_gain("B", pb), !.op = "create",
                            !.class = class, !.paramsA = pa, !.paramsB = pb]
                    ELSE [NoPair EXCEPT
                            !.phase = "Failed", !.op = "create", !.class = class,
                            !.paramsA = pa, !.paramsB = pb,
                            !.okA = FALSE, !.okB = FALSE]
    /\ UNCHANGED <<binding, oneVars, twoVars>>

\* gain_update_params returns CResult_success(); the Variant B update_params
\* returns true
pair_update_params ==
    /\ pair.phase = "Created"
    /\ \E class \in PayloadClasses :
        \E pa \in ClassPayloads("A", class), pb \in ClassPayloads("B", class) :
            pair' = [pair EXCEPT
                        !.gainA = update_gain("A", @, pa),
                        !.gainB = update_gain("B", @, pb),
                        !.op = "update_params", !.class = class,
                        !.paramsA = pa, !.paramsB = pb,
                        !.beforeA = pair.gainA, !.beforeB = pair.gainB,
                        !.okA = CResult_success.success, !.okB = TRUE]
    /\ UNCHANGED <<binding, oneVars, twoVars>>

\* both instances are destroyed and the host creates a new pair
pair_destroy_instance ==
    /\ pair.phase = "Created"
    /\ pair' = [NoPair EXCEPT !.op = "destroy"]
    /\ UNCHANGED <<binding, oneVars, twoVars>>

NextPair ==
    \/ pair_create_instance
    \/ pair_update_params
    \/ pair_destroy_instance

SpecPair == InitPair /\ [][NextPair]_vars

(***************************************************************************)
(* Properties                                                              *)
(***************************************************************************)
InRange(x, lo, hi) == ~x.nan /\ lo.m <= x.m /\ x.m <= hi.m

\* how many events of kind k on object o a trace holds
RECURSIVE Count(_, _, _)
Count(trace, k, o) ==
    IF trace = <<>> THEN 0
    ELSE (IF Head(trace) = Ev(k, o) THEN 1 ELSE 0) + Count(Tail(trace), k, o)

\* C1: Variant A, on the host's create, calls, destroy-once runs: the instance
\* state is freed exactly once, by destroy_instance, and nothing (the log call
\* inside destroy_instance included) reads or writes it once it is freed.
C1_FreedOnceByDestroy ==
    binding = "A" =>
        /\ ~uaf
        /\ frees = (IF phase = "Destroyed" THEN 1 ELSE 0)
        /\ (phase = "Created" => heap = "alloc")
        /\ (phase = "Destroyed" => heap = "freed")
        /\ Count(last.trace, "free", "state") = (IF last.op = "destroy" THEN 1 ELSE 0)

C1_Witness ==
    /\ binding = "A"
    /\ phase = "Destroyed"
    /\ last.op = "destroy"
    /\ Len(last.logs) = 1
    /\ frees = 1

\* C2: Variant B: once the destructor has run, the instance state has been freed
\* exactly once, whether the host called cleanup zero times or once before.
C2_DestructorReleases ==
    (binding = "B" /\ phase = "Destroyed" /\ cleanups <= 1) => frees = 1

\* C3: Variant B, handle live: no sequence of process, update_params and cleanup
\* frees the instance state twice or touches it after it was freed.
C3_MethodsAreMemorySafe ==
    (binding = "B" /\ phase # "Destroyed") => (frees <= 1 /\ ~uaf)

\* C4: after create and after every update_params the stored gain lies in the
\* schema range (linear [0, 4] in A; [-60 dB, +20 dB] before conversion in B),
\* and a request below (above) the range is stored as the minimum (maximum).
C4_StoredGainInRange ==
    (last.op \in {"create", "update_params"} /\ last.handle # "NULL") =>
        /\ binding = "A" =>
            /\ InRange(state.gain, MIN_GAIN, MAX_GAIN)
            /\ \A v \in Requested("A") :
                 last.params = Object("key_gain", Num(v)) =>
                    /\ FLt(v, MIN_GAIN) => state.gain = MIN_GAIN
                    /\ FLt(MAX_GAIN, v) => state.gain = MAX_GAIN
        /\ (binding = "B" /\ last.logs # <<>>) =>
            /\ InRange(last.logs[1].a, MIN_GAIN_DB, MAX_GAIN_DB)
            /\ state.gain = db_to_linear(last.logs[1].a)
            /\ \A v \in Requested("B") :
                 last.params = Object("key_gain_db", Num(v)) =>
                    /\ FLt(v, MIN_GAIN_DB) => last.logs[1].a = MIN_GAIN_DB
                    /\ FLt(MAX_GAIN_DB, v) => last.logs[1].a = MAX_GAIN_DB

\* C5: update_params with an absent or empty payload succeeds and leaves the
\* gain as it was, in both variants.
C5_NoParamsNoChange ==
    (last.op = "update_params" /\ last.params \in AbsentParams \cup EmptyParams) =>
        (last.result.success /\ state.gain = last.gainBefore)

\* C6 as stated: update_params with a non-empty payload that lacks the key, or
\* whose value is no number, succeeds and leaves the gain as it was.
C6_MalformedKeepsGain ==
    (last.op = "update_params"
        /\ last.params \in KeyMissingParams(binding) \cup UnparsableParams(binding)) =>
        (last.result.success /\ state.gain = last.gainBefore)

\* C6 as amended: such an update_params succeeds and sets the gain to the
\* schema default (linear 1.0, 0 dB), whatever it was before; it never returns
\* an error result.
C6_MalformedResetsToDefault ==
    (last.op = "update_params"
        /\ last.params \in KeyMissingParams(binding) \cup UnparsableParams(binding)) =>
        /\ last.result = CResult_success
        /\ state.gain = F(1000)
        /\ (binding = "B" => last.logs[1].a = F(0))

C6_Witness ==
    /\ last.op = "update_params"
    /\ last.params \in UnparsableParams(binding)
    /\ heap = "alloc"
    /\ last.gainBefore = F(2000)
    /\ state.gain = F(1000)

\* C7: create with an absent, empty, key-missing or unparsable payload fails
\* only when allocation fails, and otherwise returns a handle to state whose
\* gain is the schema default (linear 1.0; 0 dB in Variant B).
C7_CreateFallsBackToDefault ==
    (last.op = "create"
        /\ last.params \in AbsentParams \cup EmptyParams
                \cup KeyMissingParams(binding) \cup UnparsableParams(binding)) =>
        /\ last.handle = "NULL" => last.oom
        /\ last.handle # "NULL" =>
            /\ last.handle = "state"
            /\ phase = "Created"
            /\ heap = "alloc"
            /\ state.gain = F(1000)
            /\ (binding = "B" => last.logs[1].a = F(0))

C7_Witness ==
    /\ last.op = "create"
    /\ binding = "B"
    /\ last.params \in KeyMissingParams("B")
    /\ last.handle = "state"
    /\ state.gain = F(1000)

\* C8: process on a packet whose tag is not RawAudio returns a failed result
\* with an error message, calls send-output zero times and leaves the gain
\* unchanged, in both variants.
C8_WrongTagFails ==
    (last.op = "process" /\ last.packet.tag # "RawAudio") =>
        /\ ~last.result.success
        /\ last.result.error_message # NULL
        /\ last.sent = <<>>
        /\ Count(last.trace, "send", "host") = 0
        /\ state.gain = last.gainBefore

C8_Witness ==
    /\ last.op = "process"
    /\ last.packet.tag = "Text"
    /\ ~last.result.success
    /\ heap = "alloc"

GainInSchemaRange(g) ==
    IF binding = "A" THEN InRange(g, MIN_GAIN, MAX_GAIN)
    ELSE InRange(g, db_to_linear(MIN_GAIN_DB), db_to_linear(MAX_GAIN_DB))

InstanceCalls ==
    {"create", "process", "update_params", "flush", "destroy", "cleanup", "destructor"}

\* C11: a call-table module whose descriptor reports a version other than the
\* host's (STREAMKIT_NATIVE_PLUGIN_API_VERSION) is rejected at load, and no
\* create_instance, process_packet, update_params, flush or destroy_instance call
\* is ever made on it; the shipped gain_c table declares that version and is
\* accepted.
C11_VersionMismatchRejected ==
    /\ (binding = "A" /\ module.version # 2) =>
        /\ phase \in {"Unloaded", "Rejected"}
        /\ last.op \notin InstanceCalls
        /\ heap = "none"
        /\ (last.op = "load" => phase = "Rejected")
    /\ (module.name = "gain_c" /\ phase # "Unloaded") => phase # "Rejected"

C11_Witness ==
    /\ binding = "A"
    /\ module.version = 3
    /\ phase = "Rejected"
    /\ Idle

\* C12: when the allocation of the instance state fails, create yields no handle
\* (NULL in Variant A, the zero handle in Variant B), calls no host capability
\* (nothing is logged), registers no resource and leaves no allocated state.
C12_FailedCreateLeavesNothing ==
    (last.op = "create" /\ last.oom) =>
        /\ last.handle = NULL
        /\ last.logs = <<>>
        /\ \A i \in 1..Len(last.trace) : last.trace[i].o # "host"
        /\ Count(last.trace, "malloc", "state") = 0
        /\ heap = "none"
        /\ phase = "Failed"

C12_Witness ==
    /\ last.op = "create"
    /\ last.oom
    /\ binding = "B"
    /\ has_params(last.params)

\* C13: flush on the gain node (Variant A) always returns success, sends zero
\* packets and leaves the gain as it was, at any point between create and
\* destroy and however many times it is called.
C13_FlushIsNoOp ==
    last.op = "flush" =>
        /\ last.result.success
        /\ last.result.error_message = NULL
        /\ last.sent = <<>>
        /\ Count(last.trace, "send", "host") = 0
        /\ state.gain = last.gainBefore
        /\ heap = "alloc"
        /\ phase = "Created"

C13_Witness ==
    /\ last.op = "flush"
    /\ state.gain = F(2000)

\* an instance that was created and has been neither cleaned up nor destroyed
Live(i) == inst[i].phase = "Created" /\ inst[i].cleanups = 0

\* C14: two distinct instances share no mutable state: under any interleaving of
\* lifecycle calls on them, each live instance keeps its state, its gain is the
\* one its own create and update_params calls established, and what its process
\* sends is what it would send had its calls run alone; no call on one instance
\* changes the gain of the other.
C14_InstancesIndependent ==
    \A i \in Instances :
        Live(i) =>
            /\ chunks[inst[i].chunk].alloc
            /\ chunks[inst[i].chunk].gain = inst[i].solo
            /\ (call.op = "process" /\ call.inst = i) => call.sent = call.expected

\* the node metadata of the two modules, written out
MetadataOf(b) ==
    IF b = "A"
    THEN [kind |-> "gain_c",
          inputs |-> <<[name |-> "in", accepts_types |->
                          <<[type_discriminant |-> "RawAudio", audio_format |->
                              [sample_rate |-> 0, channels |-> 0, sample_format |-> "F32"]]>>]>>,
          outputs |-> <<[name |-> "out", produces_type |->
                          [type_discriminant |-> "RawAudio", audio_format |->
                              [sample_rate |-> 0, channels |-> 0, sample_format |-> "F32"]]]>>,
          param_schema |-> [property |-> "gain", default |-> F(1000),
                            minimum |-> F(0), maximum |-> F(4000)],
          categories |-> <<"audio", "filters">>]
    ELSE [kind |-> "gain_filter_c",
          inputs |-> <<[name |-> "in", accepts_types |->
                          <<[type_discriminant |-> "RawAudio", audio_format |->
                              [sample_rate |-> 48000, channels |-> 1, sample_format |-> "F32"]]>>]>>,
          outputs |-> <<[name |-> "out", produces_type |->
                          [type_discriminant |-> "RawAudio", audio_format |->
                              [sample_rate |-> 48000, channels |-> 1, sample_format |-> "F32"]]]>>,
          param_schema |-> [property |-> "gain_db", default |-> F(0),
                            minimum |-> F(-60000), maximum |-> F(20000)],
          categories |-> <<"audio", "filters">>]

C16_ResultsWellFormed ==
    (binding = "A" /\ last.op \in {"process", "update_params", "flush"}) =>
        (last.result.error_message # "NULL" <=> ~last.result.success)

C16_Witness ==
    /\ binding = "A"
    /\ last.op = "process"
    /\ ~last.result.success
    /\ last.result.error_message = "Failed to allocate output buffer"

\* C17: under the pin-compatibility rule, the input pin "in" of gain_c (RawAudio,
\* sample_rate 0, channels 0, F32) accepts an offered RawAudio type of sample
\* format F32 whatever its rate and channel count, rejects RawAudio of format
\* S16LE and rejects every other tag; the type gain_c's own output pin produces
\* is compatible with its own input pin.
C17_GainCInputPinNegotiation ==
    (binding = "A" /\ last.op = "negotiate") =>
        /\ last.compatible =
            (/\ last.offered.type_discriminant = "RawAudio"
             /\ last.offered.audio_format.sample_format = "F32")
        /\ (/\ last.offered.type_discriminant = "RawAudio"
            /\ last.offered.audio_format =
                [sample_rate |-> 0, channels |-> 0, sample_format |-> "F32"])
            => last.compatible

C17_Witness ==
    /\ binding = "A"
    /\ last.op = "negotiate"
    /\ last.offered.audio_format =
        [sample_rate |-> 16000, channels |-> 2, sample_format |-> "F32"]
    /\ last.compatible

\* where a gain stands in its variant's schema: at the default, at a bound, or at
\* one of the two in-range values the payloads ask for
GainKind(b, g) ==
    IF b = "A"
    THEN CASE g = F(1000) -> "default"
           [] g = F(0) -> "min"
           [] g = F(4000) -> "max"
           [] g = F(500) -> "value_1"
           [] g = F(2000) -> "value_2"
           [] OTHER -> "other"
    ELSE CASE g = F(1000) -> "default"
           [] g = F(1) -> "min"
           [] g = F(10000) -> "max"
           [] g = F(100) -> "value_1"
           [] g = F(1995) -> "value_2"
           [] OTHER -> "other"

\* C18: Variant A and Variant B realise the same parameter-handling contract:
\* given payloads of the same class (absent, empty, key missing, unparsable,
\* in range, below the minimum, above the maximum) in create and update_params,
\* both have the same kind of effect on the gain (unchanged, reset to the
\* default, set to the value, set to the nearest bound) and the same success or
\* failure; so after the same calls the two gains are of the same kind.
C18_VariantsAgree ==
    /\ pair.okA = pair.okB
    /\ pair.phase = "Created" =>
        GainKind("A", pair.gainA) = GainKind("B", pair.gainB)

\* the output buffer along a trace: whether it is allocated, how often it was
\* allocated and freed, and whether every write to it and every send of the
\* packet that points to it found it allocated
OutStep(b, e) ==
    CASE e.k = "malloc" /\ e.o = "out" ->
            [b EXCEPT !.status = "alloc", !.mallocs = @ + 1]
      [] e.k = "free" /\ e.o = "out" ->
            [b EXCEPT !.status = "freed", !.frees = @ + 1,
                      !.valid = @ /\ b.status = "alloc"]
      [] e.k = "write" /\ e.o = "out" -> [b EXCEPT !.valid = @ /\ b.status = "alloc"]
      [] e.k = "send" -> [b EXCEPT !.valid = @ /\ b.status = "alloc"]
      [] OTHER -> b

RECURSIVE ReplayOut(_, _)
ReplayOut(b, trace) ==
    IF trace = <<>> THEN b ELSE ReplayOut(OutStep(b, Head(trace)), Tail(trace))

OutBuffer(trace) ==
    ReplayOut([status |-> "none", mallocs |-> 0, frees |-> 0, valid |-> TRUE], trace)

\* C19: the output buffer of Variant A's process_packet is allocated inside the
\* call, is still allocated during the whole send-output callback, and is freed
\* by the time process_packet returns, on every path, callback failure
\* included: no buffer of the plugin is outstanding after the return and none
\* is freed twice.
C19_OutputBufferOwnedByCall ==
    (binding = "A" /\ last.op = "process") =>
        LET b == OutBuffer(last.trace)
        IN  /\ b.valid
            /\ b.status \in {"none", "freed"}
            /\ b.mallocs <= 1
            /\ b.frees = b.mallocs
            /\ last.sent # <<>> => b.mallocs = 1

C19_Witness ==
    /\ binding = "A"
    /\ last.op = "process"
    /\ ~last.result.success
    /\ last.sent # <<>>
    /\ last.packet.sample_count = 2
    /\ OutBuffer(last.trace).frees = 1

\* C20: a failure of the host's send-output step is the outcome of process:
\* Variant A returns the callback's CResult unchanged, Variant B returns false
\* with the send error forwarded as its error; process never reports success
\* when the send failed, and it does not send a second time.
C20_SendFailureSurfaced ==
    (last.op = "process" /\ last.sent # <<>>) =>
        /\ Len(last.sent) = 1
        /\ Count(last.trace, "send", "host") = 1
        /\ binding = "A" => last.result = last.cb
        /\ ~last.cb.success =>
            /\ ~last.result.success
            /\ last.result.error_message = last.cb.error_message

C20_Witness ==
    /\ binding = "B"
    /\ last.op = "process"
    /\ last.sent # <<>>
    /\ last.cb.error_message = "pin closed"
    /\ ~last.result.success

\* C21: the gain node neither buffers nor reorders: after any serialized sequence
\* of process calls on one instance the host's output callback has been invoked
\* once for each process call that passed validation and allocation, inside that
\* very call, so the sends are as many as those calls and in their order; no
\* other call sends.
C21_NoBufferingNoReordering ==
    /\ stream.delivered = stream.accepted
    /\ Len(stream.delivered) <= stream.calls
    /\ last.op = "process" =>
        Count(last.trace, "send", "host") =
            (IF stream.accepted # <<>>
                /\ stream.accepted[Len(stream.accepted)] = stream.calls
             THEN 1 ELSE 0)
    /\ last.op # "process" => Count(last.trace, "send", "host") = 0

C21_Witness ==
    /\ stream.calls = 2
    /\ stream.delivered = <<2>>
    /\ last.op = "process"
    /\ last.sent # <<>>

\* C22: the effective gain is written only by create and update_params: process
\* (successful or failed) and flush leave it as it was, and the gain applied to
\* every sample of a packet is the value the most recent create or
\* update_params established before the process call began, one and the same
\* value for all samples of the packet.
C22_GainSetOnlyByCreateAndUpdate ==
    /\ last.op \in {"process", "flush"} => state.gain = last.gainBefore
    /\ (last.op = "process" /\ last.sent # <<>>) =>
        /\ Len(last.sent[1].packet.samples) = Len(last.packet.samples)
        /\ \A i \in 1..Len(last.packet.samples) :
            last.sent[1].packet.samples[i] = FMul(last.packet.samples[i], last.gainBefore)

\* C23: Variant A defends against a null handle and a malformed frame:
\* process_packet and update_params called with a NULL handle return a failed
\* CResult ("Null handle") without dereferencing the handle and without a send;
\* process_packet with a RawAudio packet whose frame pointer or samples pointer
\* is NULL returns a failed CResult with zero sends and no allocation;
\* destroy_instance with a NULL handle does nothing (no log call, no free).
C23_NullHandleAndFrameDefence ==
    /\ last.op \in {"process_null_handle", "update_params_null_handle"} =>
        /\ ~last.result.success
        /\ last.result.error_message = "Null handle"
        /\ last.trace = <<>>
        /\ last.sent = <<>>
        /\ last.logs = <<>>
        /\ state.gain = last.gainBefore
    /\ (binding = "A" /\ last.op = "process" /\ last.frame # "ok"
            /\ last.packet.tag = "RawAudio") =>
        /\ ~last.result.success
        /\ last.result.error_message # "NULL"
        /\ last.sent = <<>>
        /\ Count(last.trace, "send", "host") = 0
        /\ Count(last.trace, "malloc", "out") = 0
        /\ ~last.oom
    /\ last.op = "destroy_null_handle" =>
        /\ last.trace = <<>>
        /\ last.logs = <<>>
        /\ phase \in {"Created", "Failed"}
        /\ phase = "Created" => (heap = "alloc" /\ frees = 0)

C23_Witness ==
    /\ last.op = "update_params_null_handle"
    /\ phase = "Created"
    /\ state.gain = F(2000)
    /\ last.params = Object("key_gain", Num(F(500)))

\* C24: update_params on a valid handle never reports failure, whatever the
\* payload (absent, empty, key missing, malformed, out of range, valid):
\* Variant A returns a successful CResult and Variant B returns true without
\* setting the error string.
C24_UpdateParamsNeverFails ==
    (last.op = "update_params" /\ last.handle # NULL) =>
        /\ last.params \in Params(binding)
        /\ last.result.success
        /\ last.result.error_message = "NULL"

C24_Witness ==
    /\ binding = "A"
    /\ last.op = "update_params"
    /\ last.params = Object("key_gain", Tok("junk"))
    /\ last.gainBefore = F(2000)
    /\ state.gain = DEFAULT_GAIN

\* C25: every lifecycle call terminates and returns its result: no call leaves
\* the module unable to return; a process call that got past validation and
\* allocation ran its loop exactly sample_count times before it returned; and
\* once the host's call sequence has ended in destroy the instance is Destroyed.
C25_EveryCallReturns ==
    /\ phase # "Aborted"
    /\ last.op \in {"destroy", "destructor"} => phase = "Destroyed"
    /\ (last.op = "process" /\ last.sent # <<>>) =>
        Count(last.trace, "write", IF binding = "A" THEN "out" ELSE "in")
            = last.packet.sample_count

====
